---- MODULE Spec2Model ----
(***************************************************************************)
(* LinguaRelay background core: EnginePool (engine-pool.ts) and the        *)
(* TabSession / SessionManager pair (session-manager.ts).                  *)
(*                                                                         *)
(* JavaScript runs each handler to its next await without interleaving,    *)
(* so one action of this module is one such run-to-completion segment.     *)
(***************************************************************************)
EXTENDS Integers, Sequences, FiniteSets, TLC

(* ------------------------------ bounds --------------------------------- *)

\* Direct calls the pool harness (SpecPool) makes on one pool.
MaxCalls == 6

\* Chunks each page sends where two sessions are followed together.
MaxSharedChunks == 2

\* SESSION_INIT messages of one session that get as far as acquiring engines.
MaxInits == 1

\* SESSION_INIT messages of one session that get as far as acquiring engines
\* in SpecAudio, where a second Init can find the queue in use.
MaxAudioInits == 2

\* AUDIO_CHUNK messages a running session receives: the 30 of Scenario C.
MaxChunks == 30

\* Segments the recognition engine reports to one session.
MaxSegments == 3

\* Messages in a session's outbox beyond which the engine makes no further
\* callback into the session.
MaxPosted == 2

(* --------------------------- configuration ----------------------------- *)

\* The stored user settings the program can read (shared/contracts.ts
\* UserSettings, reduced to the fields the core reads).
AsrGateway == [mode |-> "online-gateway", model |-> "whisper-1", language |-> "auto"]

AsrLocal ==
  [mode |-> "local-onnx", model |-> "whisper-large-v3-turbo",
   precision |-> "q4", language |-> "auto"]

TranslationOff == [enabled |-> FALSE, provider |-> "none", model |-> "default"]

TranslationOn == [enabled |-> TRUE, provider |-> "openai-compatible", model |-> "gpt"]

AsrConfigs == {AsrGateway, AsrLocal}

TranslationConfigs == {TranslationOff, TranslationOn}

\* engine-registry: the pool key of a recognition configuration.
getAsrEngineKey(config) ==
  IF config.mode = "online-gateway"
    THEN <<"asr", "gateway", config.model, config.language>>
    ELSE <<"asr", "local", config.model, config.precision, config.language>>

\* engine-registry: the pool key of a translation configuration.
getTranslatorKey(config) ==
  IF ~config.enabled \/ config.provider = "none"
    THEN <<"translator", "none">>
    ELSE <<"translator", config.provider, config.model>>

\* <<tabId, frameId>> of the ports that connect; sessionId is `${tabId}:${frameId}`.
Idents == {<<1, 0>>, <<2, 0>>}

\* The TabSession objects the manager constructs in one run, in the order of
\* their construction; a run that follows one session constructs the first.
SessionObjects == {1, 2}

OneSession == {1}

\* The ports one session is given, in the order of their attachment; where a
\* re-attach changes nothing that is followed, the first only.
SessionPorts == {1, 2}

OnePort == {1}

\* The identity of the port in a run that follows one session's queue.
OneIdent == {<<1, 0>>}

\* runtime.maxPendingAudioChunks as the user can set it: the value of
\* Scenario C, and a smaller one.
ScenarioMaxPending == 10

SmallMaxPending == 4

\* The settings getSettings() can return. maxSessions is as many as the
\* identities that connect, so that the registry can fill, or 1.
SettingsChoices ==
  { [asr |-> AsrGateway, translation |-> TranslationOff,
     runtime |-> [maxSessions |-> Cardinality(Idents),
                  maxPendingAudioChunks |-> ScenarioMaxPending,
                  partialTranslation |-> FALSE]],
    [asr |-> AsrLocal, translation |-> TranslationOn,
     runtime |-> [maxSessions |-> 1,
                  maxPendingAudioChunks |-> SmallMaxPending,
                  partialTranslation |-> TRUE]] }

\* What getSettings() returned to SessionManager.create().
\* Translation of final segments only.
SettingsFinalOnly ==
  [asr |-> AsrLocal, translation |-> TranslationOn,
   runtime |-> [maxSessions |-> 1,
                maxPendingAudioChunks |-> SmallMaxPending,
                partialTranslation |-> FALSE]]

InitialSettings == CHOOSE c \in SettingsChoices : c.asr = AsrGateway

VT_CHANNEL_VERSION == 1

SESSION_HEARTBEAT_TIMEOUT_MS == 20000

\* The period of the manager's health timer.
HealthIntervalMs == 5000

\* Time is observed in steps of five health intervals, and the time since a
\* session's last heartbeat is followed up to one such step.
TickMs == 5 * HealthIntervalMs

Tabs == {id[1] : id \in Idents}

PlaybackStates == {"playing", "paused"}

\* How far behind Date.now() the timestamp of a HEARTBEAT message can be.
HeartbeatSkews == {0, SESSION_HEARTBEAT_TIMEOUT_MS, TickMs}

PoolNames == {"asr", "translator"}

PoolKeys(p) ==
  IF p = "asr" THEN {getAsrEngineKey(c) : c \in AsrConfigs}
               ELSE {getTranslatorKey(c) : c \in TranslationConfigs}

(* ------------------------------- state --------------------------------- *)

VARIABLES
  pools,         \* pools[p].entries: the Map key -> PoolEntry of pool p;
                 \* pools[p].orphans[k]: armed setTimeout callbacks for key k
                 \* whose handle no entry holds any more
  disposeCalls,  \* disposeCalls[e]: calls of dispose() on engine instance e;
                 \* its domain is the instances the factories constructed
  engineKey,     \* engineKey[e]: <<pool, key>> instance e was constructed for
  lastCall,      \* the most recent pool operation and what it returned
  reacquired,    \* reacquired[p][k]: acquire(k) hit the entry since the last
                 \* release that brought its refCount to 0
  calls,         \* harness calls made so far (SpecPool only)
  session,       \* session[s]: the fields of the s-th TabSession constructed
  registry,      \* SessionManager.sessions: sessionId -> TabSession
  settingsStore, \* what getSettings() returns now
  settingsCache, \* SessionManager.settingsCache
  shutdownPc,    \* where SessionManager.shutdown() stands
  lastOutcome    \* what the attachPort, sweep or ignored Init just run did

poolVars == <<pools, disposeCalls, engineKey, lastCall, reacquired>>

managerVars == <<session, registry, settingsStore, settingsCache, shutdownPc, lastOutcome>>

vars ==
  <<pools, disposeCalls, engineKey, lastCall, reacquired, calls,
    session, registry, settingsStore, settingsCache, shutdownPc, lastOutcome>>

(* ---------------------------- EnginePool ------------------------------- *)

Engines == 1..Len(disposeCalls)

EmptyPool(p) == [entries |-> << >>, orphans |-> [k \in PoolKeys(p) |-> 0]]

Has(pool, key) == key \in DOMAIN pool.entries

MapSet(map, key, value) ==
  [k \in DOMAIN map \cup {key} |-> IF k = key THEN value ELSE map[k]]

MapDelete(map, key) == [k \in DOMAIN map \ {key} |-> map[k]]

NewEntry(fresh) == [engine |-> fresh, refCount |-> 1, idleTimer |-> FALSE]

\* acquire(key, create): the pool after the call, the instance returned and
\* whether create() was invoked. `fresh` is what create() would return.
AcquireAlwaysCreates(pool, key, fresh) ==
  [pool    |-> [pool EXCEPT !.entries = MapSet(pool.entries, key, NewEntry(fresh))],
   engine  |-> fresh,
   created |-> TRUE]

AcquireKeepsTimer(pool, key, fresh) ==
  IF Has(pool, key)
    THEN [pool    |-> [pool EXCEPT !.entries[key].refCount = @ + 1],
          engine  |-> pool.entries[key].engine,
          created |-> FALSE]
    ELSE [pool    |-> [pool EXCEPT !.entries = MapSet(pool.entries, key, NewEntry(fresh))],
          engine  |-> fresh,
          created |-> TRUE]

acquire(pool, key, fresh) ==
  IF Has(pool, key)
    THEN [pool    |-> [pool EXCEPT !.entries[key].refCount = @ + 1,
                                   !.entries[key].idleTimer = FALSE],
          engine  |-> pool.entries[key].engine,
          created |-> FALSE]
    ELSE [pool    |-> [pool EXCEPT !.entries = MapSet(pool.entries, key, NewEntry(fresh))],
          engine  |-> fresh,
          created |-> TRUE]

\* acquire(key, create) with a create() that throws, the entry being set
\* before create() runs.
AcquireThrowingLeavesEntry(pool, key) ==
  IF Has(pool, key)
    THEN [pool |-> acquire(pool, key, 0).pool, engine |-> pool.entries[key].engine,
          threw |-> FALSE]
    ELSE [pool |-> [pool EXCEPT !.entries = MapSet(pool.entries, key, NewEntry(0))],
          engine |-> 0, threw |-> TRUE]

\* acquire(key, create) with a create() that throws: on a hit create() is not
\* called; on a miss the exception leaves acquire before entries.set.
acquireThrowing(pool, key) ==
  IF Has(pool, key)
    THEN [pool |-> acquire(pool, key, 0).pool, engine |-> pool.entries[key].engine,
          threw |-> FALSE]
    ELSE [pool |-> pool, engine |-> 0, threw |-> TRUE]

\* release(key) taking the count to 0 whatever it was.
ReleaseDropsAll(pool, key) ==
  IF ~Has(pool, key) THEN pool
  ELSE [pool EXCEPT !.entries[key].refCount = 0,
                    !.entries[key].idleTimer = TRUE]

\* release(key): the pool after the call. setTimeout overwrites
\* entry.idleTimer without clearing a handle already there, so a timer armed
\* by an earlier release stays armed with no handle left to cancel it.
release(pool, key) ==
  IF ~Has(pool, key) THEN pool
  ELSE IF pool.entries[key].refCount - 1 > 0
    THEN [pool EXCEPT !.entries[key].refCount = @ - 1]
    ELSE [pool EXCEPT !.entries[key].refCount = @ - 1,
                      !.entries[key].idleTimer = TRUE,
                      !.orphans[key] = IF pool.entries[key].idleTimer THEN @ + 1 ELSE @]

\* The body of the setTimeout callback of release: whether it disposes.
TimerDisposes(pool, key) == Has(pool, key) /\ ~(pool.entries[key].refCount > 0)

\* The callback armed by the release whose handle entry.idleTimer holds.
IdleTimerFired(pool, key) ==
  IF TimerDisposes(pool, key)
    THEN [pool EXCEPT !.entries = MapDelete(pool.entries, key)]
    ELSE [pool EXCEPT !.entries[key].idleTimer = FALSE]

\* A callback whose handle was overwritten or whose entry is gone. When it
\* deletes the entry, the timer that entry held stays armed without a handle.
OrphanTimerFired(pool, key) ==
  IF TimerDisposes(pool, key)
    THEN [pool EXCEPT !.entries = MapDelete(pool.entries, key),
                      !.orphans[key] =
                         IF pool.entries[key].idleTimer THEN @ ELSE @ - 1]
    ELSE [pool EXCEPT !.orphans[key] = @ - 1]

DisposeAllKeepsEntries(pool) == pool

\* disposeAll(): clears the timers the entries hold, disposes every engine,
\* deletes every entry.
disposeAll(pool) == [pool EXCEPT !.entries = << >>]

DisposedBy(calls0, engines) ==
  [e \in DOMAIN calls0 |-> IF e \in engines THEN calls0[e] + 1 ELSE calls0[e]]

\* The two pools with the engine instances constructed so far, as one value
\* a handler threads through the pool calls it makes.
PoolState == [pools |-> pools, disposeCalls |-> disposeCalls, engineKey |-> engineKey]

\* acquire on pool p: the factory runs on a miss only and constructs the next
\* instance.
AcquireIn(ps, p, key) ==
  LET got == acquire(ps.pools[p], key, Len(ps.disposeCalls) + 1)
  IN  [ps |->
         [pools |-> [ps.pools EXCEPT ![p] = got.pool],
          disposeCalls |->
            IF got.created THEN Append(ps.disposeCalls, 0) ELSE ps.disposeCalls,
          engineKey |->
            IF got.created THEN Append(ps.engineKey, <<p, key>>) ELSE ps.engineKey],
       engine |-> got.engine,
       created |-> got.created]

ReleaseIn(ps, p, key) == [ps EXCEPT !.pools[p] = release(ps.pools[p], key)]

\* The setTimeout callback of release runs for key: engine.dispose() is called
\* and the entry deleted, or nothing happens.
TimerIn(ps, p, key, orphan) ==
  [ps EXCEPT
     !.pools[p] = IF orphan THEN OrphanTimerFired(ps.pools[p], key)
                            ELSE IdleTimerFired(ps.pools[p], key),
     !.disposeCalls =
        IF TimerDisposes(ps.pools[p], key)
          THEN DisposedBy(@, {ps.pools[p].entries[key].engine})
          ELSE @]

DisposeAllIn(ps, p) ==
  [ps EXCEPT
     !.pools[p] = disposeAll(ps.pools[p]),
     !.disposeCalls =
        DisposedBy(@, {ps.pools[p].entries[k].engine : k \in DOMAIN ps.pools[p].entries})]

SetPoolState(ps) ==
  /\ pools' = ps.pools
  /\ disposeCalls' = ps.disposeCalls
  /\ engineKey' = ps.engineKey

\* What a pool operation saw and returned: the entry it found (engine,
\* refCount, timer, before the call) and, for acquire, the instance returned.
Seen(p, key) ==
  LET pool == pools[p]
      had  == Has(pool, key)
  IN  [pool |-> p, key |-> key, hadEntry |-> had,
       prior |-> IF had THEN pool.entries[key].engine ELSE 0,
       refCount |-> IF had THEN pool.entries[key].refCount ELSE 0,
       timer |-> had /\ pool.entries[key].idleTimer,
       reacquired |-> reacquired[p][key]]

CallRecord(op, p, key, engine, created) ==
  [op |-> op, engine |-> engine, created |-> created, seen |-> Seen(p, key)]

NoCall ==
  [op |-> "none", engine |-> 0, created |-> FALSE,
   seen |-> [pool |-> "asr", key |-> << >>, hadEntry |-> FALSE, prior |-> 0,
             refCount |-> 0, timer |-> FALSE, reacquired |-> FALSE]]

\* The idle timer an entry holds elapses.
IdleTimerFires(p, key) ==
  /\ Has(pools[p], key)
  /\ pools[p].entries[key].idleTimer
  /\ SetPoolState(TimerIn(PoolState, p, key, FALSE))
  /\ UNCHANGED reacquired
  /\ lastCall' = CallRecord(IF TimerDisposes(pools[p], key) THEN "idle-dispose"
                            ELSE "idle-skip", p, key, 0, FALSE)

\* A timer no entry holds the handle of elapses.
OrphanTimerFires(p, key) ==
  /\ pools[p].orphans[key] > 0
  /\ SetPoolState(TimerIn(PoolState, p, key, TRUE))
  /\ UNCHANGED reacquired
  /\ lastCall' = CallRecord(IF TimerDisposes(pools[p], key) THEN "idle-dispose"
                            ELSE "idle-skip", p, key, 0, FALSE)

(* ----------------------------- TabSession ----------------------------- *)

\* The fields of a TabSession right after its constructor bound the port.
\* settings and engines hold << >> for null and <<value>> otherwise.
\*   heartbeatAge Date.now() - lastHeartbeatAt
\*   initPc       where the handleSessionInit in flight stands: "none",
\*                "settings" (awaiting loadSettings) or "initialize"
\*                (awaiting asr.initialize)
\*   initEngine, fatalInitError   the locals `asr` and `fatalInitError` of
\*                that handleSessionInit
\*   playback     payloads of the PLAYBACK_STATE handlers awaiting
\*                asr.setPlaybackState, those that assign state when it
\*                resolves ("paused"; any other payload assigns state to
\*                itself)
\*   callbacks    recognition engines this session passed callbacks to
\*   port         this.port; the ports a session is given are numbered
\*                1, 2, ... and attached is the number of the last one
\*   listeners    the ports the session's onMessage and onDisconnect
\*                listeners are on
\*   portOpen     postMessage on the port does not throw
\*   outbox       what the session posted, in order
\*   postedTo     the port the last of them was posted to (0: none yet)
\*   acquired, released, closedCalls   counts of the acquires and releases
\*                made on each pool and of the deps.onClosed calls
\*   pendingAudioChunks   the queue; a chunk is named by the count of
\*                accepted chunks it brought receivedAudioChunks to
\*   pushing      chunks handed to asr.pushAudio whose promise is pending
\*   pushLog      every chunk handed to asr.pushAudio, in order
\*   segments     segments the engine reported to this session so far; a
\*                segment is named by its number
\*   translating  segments whose translator.translate call is pending
NewSession(id) ==
  [sessionId |-> id, state |-> "idle", settings |-> << >>, engines |-> << >>,
   heartbeatAge |-> 0, isDisposed |-> FALSE, initInProgress |-> FALSE,
   initPc |-> "none", initEngine |-> 0, fatalInitError |-> FALSE,
   playback |-> {}, callbacks |-> {}, port |-> 1, attached |-> 1, listeners |-> {1},
   portOpen |-> TRUE,
   outbox |-> << >>, postedTo |-> 0,
   acquired |-> [p \in PoolNames |-> 0], released |-> [p \in PoolNames |-> 0],
   closedCalls |-> 0,
   pendingAudioChunks |-> << >>, flushingAudio |-> FALSE,
   receivedAudioChunks |-> 0, droppedAudioChunks |-> 0,
   pushing |-> {}, pushLog |-> << >>,
   revision |-> 0, segments |-> 0, translating |-> {}]

Sessions == 1..Len(session)

\* What a handler reads and writes: the sessions, the registry, the pools.
World == [session |-> session, registry |-> registry, ps |-> PoolState]

SetWorld(w) ==
  /\ session' = w.session
  /\ registry' = w.registry
  /\ SetPoolState(w.ps)

SessionError(code, fatal) == <<"SESSION_ERROR", code, fatal>>

\* isHeartbeatExpired(now) with the timeout itself counted as expired.
isHeartbeatExpiredAtTimeout(se) == se.heartbeatAge >= SESSION_HEARTBEAT_TIMEOUT_MS

\* isHeartbeatExpired(now)
isHeartbeatExpired(se) == se.heartbeatAge > SESSION_HEARTBEAT_TIMEOUT_MS

\* dispose(reason) run with the isDisposed guard replaced by a test of state.
DisposeGuardedByState(w, s, reason) ==
  LET se == w.session[s]
      held == se.engines # << >>
      ps1 == IF held
               THEN ReleaseIn(ReleaseIn(w.ps, "asr", se.engines[1].asrKey),
                              "translator", se.engines[1].translatorKey)
               ELSE w.ps
  IN  IF se.state = "closed" THEN w
      ELSE [session |->
              [w.session EXCEPT ![s] =
                 [se EXCEPT !.isDisposed = TRUE, !.state = "closed",
                            !.listeners = @ \ {se.port},
                            !.pendingAudioChunks = << >>,
                            !.engines = << >>,
                            !.released = IF held THEN [p \in PoolNames |-> @[p] + 1] ELSE @,
                            !.outbox = IF se.portOpen
                                         THEN Append(@, <<"SESSION_STOPPED">>)
                                         ELSE @,
                            !.postedTo = IF se.portOpen THEN se.port ELSE @,
                            !.closedCalls = @ + 1]],
            registry |-> MapDelete(w.registry, se.sessionId),
            ps |-> ps1]

\* dispose without the line that empties pendingAudioChunks.
DisposeKeepsQueue(w, s, reason) ==
  LET se == w.session[s]
      held == se.engines # << >>
      ps1 == IF held
               THEN ReleaseIn(ReleaseIn(w.ps, "asr", se.engines[1].asrKey),
                              "translator", se.engines[1].translatorKey)
               ELSE w.ps
  IN  IF se.isDisposed THEN w
      ELSE [session |->
              [w.session EXCEPT ![s] =
                 [se EXCEPT !.isDisposed = TRUE, !.state = "closed",
                            !.listeners = @ \ {se.port},
                            !.engines = << >>,
                            !.released = IF held THEN [p \in PoolNames |-> @[p] + 1] ELSE @,
                            !.outbox = IF se.portOpen
                                         THEN Append(@, <<"SESSION_STOPPED">>)
                                         ELSE @,
                            !.postedTo = IF se.portOpen THEN se.port ELSE @,
                            !.closedCalls = @ + 1]],
            registry |-> MapDelete(w.registry, se.sessionId),
            ps |-> ps1]

\* dispose calling deps.onClosed again when the session is already disposed.
DisposeCallsOnClosedAgain(w, s, reason) ==
  LET se == w.session[s]
      held == se.engines # << >>
      ps1 == IF held
               THEN ReleaseIn(ReleaseIn(w.ps, "asr", se.engines[1].asrKey),
                              "translator", se.engines[1].translatorKey)
               ELSE w.ps
  IN  IF se.isDisposed
        THEN [w EXCEPT !.registry = MapDelete(w.registry, se.sessionId)]
      ELSE [session |->
              [w.session EXCEPT ![s] =
                 [se EXCEPT !.isDisposed = TRUE, !.state = "closed",
                            !.listeners = @ \ {se.port},
                            !.pendingAudioChunks = << >>,
                            !.engines = << >>,
                            !.released = IF held THEN [p \in PoolNames |-> @[p] + 1] ELSE @,
                            !.outbox = IF se.portOpen
                                         THEN Append(@, <<"SESSION_STOPPED">>)
                                         ELSE @,
                            !.postedTo = IF se.portOpen THEN se.port ELSE @,
                            !.closedCalls = @ + 1]],
            registry |-> MapDelete(w.registry, se.sessionId),
            ps |-> ps1]

\* dispose(reason): no-op on a disposed session; otherwise marks it disposed
\* and closed, unbinds the port, drops the engines after releasing both keys,
\* posts SESSION_STOPPED (safePost: a throwing port re-enters dispose, which
\* is then a no-op) and calls deps.onClosed, which deletes the registry entry
\* of this sessionId. The reason is only the payload of SESSION_STOPPED and
\* is not kept.
Dispose(w, s, reason) ==
  LET se == w.session[s]
      held == se.engines # << >>
      ps1 == IF held
               THEN ReleaseIn(ReleaseIn(w.ps, "asr", se.engines[1].asrKey),
                              "translator", se.engines[1].translatorKey)
               ELSE w.ps
  IN  IF se.isDisposed THEN w
      ELSE [session |->
              [w.session EXCEPT ![s] =
                 [se EXCEPT !.isDisposed = TRUE, !.state = "closed",
                            !.listeners = @ \ {se.port},
                            !.pendingAudioChunks = << >>,
                            !.engines = << >>,
                            !.released = IF held THEN [p \in PoolNames |-> @[p] + 1] ELSE @,
                            !.outbox = IF se.portOpen
                                         THEN Append(@, <<"SESSION_STOPPED">>)
                                         ELSE @,
                            !.postedTo = IF se.portOpen THEN se.port ELSE @,
                            !.closedCalls = @ + 1]],
            registry |-> MapDelete(w.registry, se.sessionId),
            ps |-> ps1]

\* safePost(message): posts, or disposes the session when the port throws.
SafePost(w, s, message) ==
  IF w.session[s].portOpen
    THEN [w EXCEPT !.session[s].outbox = Append(@, message),
                   !.session[s].postedTo = w.session[s].port]
    ELSE Dispose(w, s, "post_failed")

\* dispose on each session of a set: the loops of detachTab, shutdown and
\* cleanupExpiredSessions (dispose has no await, so each call completes
\* inside the loop).
RECURSIVE DisposeEach(_, _, _)
DisposeEach(w, ss, reason) ==
  IF ss = {} THEN w
  ELSE LET s == CHOOSE x \in ss : TRUE
       IN  DisposeEach(Dispose(w, s, reason), ss \ {s}, reason)

\* A message can reach the session: its listener is on a port still open.
Receives(s) ==
  /\ s \in Sessions
  /\ session[s].port \in session[s].listeners
  /\ session[s].portOpen

\* What attachPort did with the port it was called with: the outcome, the
\* message it posted on the port itself and whether it disconnected the port.
AttachRecord(outcome, posted, disconnected) ==
  [outcome |-> outcome, posted |-> posted, disconnected |-> disconnected,
   disposed |-> {}]

NoOutcome == AttachRecord("none", << >>, FALSE)

\* handleSessionInit returned at the duplicate guard.
InitIgnored ==
  [outcome |-> "ignored", posted |-> << >>, disconnected |-> FALSE, disposed |-> {}]

\* handleAudioChunk returned at one of its two early returns.
ChunkIgnored ==
  [outcome |-> "chunk-ignored", posted |-> << >>, disconnected |-> FALSE, disposed |-> {}]

\* The catch block of flushAudioQueue ran for a rejected pushAudio.
PushFailed ==
  [outcome |-> "push-failed", posted |-> << >>, disconnected |-> FALSE, disposed |-> {}]

\* The catch block of handleAsrSegment ran for a rejected translate.
TranslateFailed ==
  [outcome |-> "translate-failed", posted |-> << >>, disconnected |-> FALSE,
   disposed |-> {}]

\* What detachTab did: the identities whose sessions it disposed.
DetachRecord(disposed) ==
  IF disposed = {} THEN NoOutcome
  ELSE [outcome |-> "detached", posted |-> << >>, disconnected |-> FALSE,
        disposed |-> disposed]

\* What cleanupExpiredSessions did: the identities whose sessions it disposed.
SweepRecord(disposed) ==
  IF disposed = {} THEN NoOutcome
  ELSE [outcome |-> "swept", posted |-> << >>, disconnected |-> FALSE,
        disposed |-> disposed]

\* A handler with no outcome to record ran: what the pool harness records stays
\* as it is.
Handled ==
  /\ lastOutcome' = NoOutcome
  /\ UNCHANGED <<lastCall, calls, reacquired>>

\* The rejection of an Init that only posts the error, and the one that
\* disposes before it posts.
InitRejectedKeepsSession(w, s, code, reason) ==
  [SafePost(w, s, SessionError(code, TRUE)) EXCEPT !.session[s].initInProgress = FALSE]

InitRejectedDisposesFirst(w, s, code, reason) ==
  [SafePost(Dispose(w, s, reason), s, SessionError(code, TRUE))
     EXCEPT !.session[s].initInProgress = FALSE]

\* handleSessionInit rejecting the Init: the fatal SESSION_ERROR is posted,
\* the session disposed, the in-progress flag cleared.
InitRejected(w, s, code, reason) ==
  [Dispose(SafePost(w, s, SessionError(code, TRUE)), s, reason)
     EXCEPT !.session[s].initInProgress = FALSE]

\* handleSessionInit up to its first await without the duplicate guard.
ReceiveInitUnguarded(s, version, isLive, inits) ==
  LET se == session[s]
      started == [World EXCEPT !.session[s].initInProgress = TRUE,
                               !.session[s].heartbeatAge = 0]
  IN  /\ Receives(s)
      /\ se.acquired["asr"] < inits
      /\ SetWorld(
           IF version # VT_CHANNEL_VERSION
             THEN InitRejected(started, s, "VERSION_MISMATCH", "version_mismatch")
           ELSE IF ~isLive THEN InitRejected(started, s, "NOT_LIVE_STREAM", "non_live")
           ELSE [started EXCEPT !.session[s].initPc = "settings"])
      /\ lastOutcome' = IF se.initInProgress THEN InitIgnored ELSE NoOutcome
      /\ UNCHANGED <<lastCall, calls, reacquired>>
      /\ UNCHANGED <<settingsStore, settingsCache, shutdownPc>>

\* handleSessionInit up to its first await, for a session that has acquired
\* engines fewer than inits times.
ReceiveInitUpTo(s, version, isLive, inits) ==
  LET se == session[s]
      started == [World EXCEPT !.session[s].initInProgress = TRUE,
                               !.session[s].heartbeatAge = 0]
  IN  /\ Receives(s)
      /\ se.acquired["asr"] < inits
      /\ SetWorld(
           IF se.initInProgress THEN World
           ELSE IF version # VT_CHANNEL_VERSION
             THEN InitRejected(started, s, "VERSION_MISMATCH", "version_mismatch")
           ELSE IF ~isLive THEN InitRejected(started, s, "NOT_LIVE_STREAM", "non_live")
           ELSE [started EXCEPT !.session[s].initPc = "settings"])
      /\ lastOutcome' = IF se.initInProgress THEN InitIgnored ELSE NoOutcome
      /\ UNCHANGED <<lastCall, calls, reacquired>>
      /\ UNCHANGED <<settingsStore, settingsCache, shutdownPc>>

ReceiveInit(s, version, isLive) == ReceiveInitUpTo(s, version, isLive, MaxInits)

\* loadSettings() resolved: the session keeps the settings, derives the keys,
\* acquires both engines and calls asr.initialize. Nothing here looks at
\* isDisposed.
InitSettingsLoaded(s) ==
  LET loaded == settingsStore
      asrKey == getAsrEngineKey(loaded.asr)
      translatorKey == getTranslatorKey(loaded.translation)
      a == AcquireIn(PoolState, "asr", asrKey)
      t == AcquireIn(a.ps, "translator", translatorKey)
  IN  /\ s \in Sessions
      /\ session[s].initPc = "settings"
      /\ settingsCache' = loaded
      /\ session' =
           [session EXCEPT
              ![s].settings = <<loaded>>,
              ![s].engines = <<[asrKey |-> asrKey, translatorKey |-> translatorKey,
                                asr |-> a.engine, translator |-> t.engine]>>,
              ![s].acquired = [p \in PoolNames |-> @[p] + 1],
              ![s].initPc = "initialize",
              ![s].initEngine = a.engine,
              ![s].fatalInitError = FALSE,
              ![s].callbacks = @ \cup {a.engine}]
      /\ SetPoolState(t.ps)
      /\ Handled
      /\ UNCHANGED <<registry, settingsStore, shutdownPc>>

\* loadSettings() rejected (storage.get failed): handleSessionInit ends there.
InitSettingsFailed(s) ==
  /\ s \in Sessions
  /\ session[s].initPc = "settings"
  /\ session' = [session EXCEPT ![s].initPc = "none"]
  /\ Handled
  /\ UNCHANGED <<pools, disposeCalls, engineKey, registry,
                 settingsStore, settingsCache, shutdownPc>>

\* asr.initialize resolved, with no look at isDisposed after the await.
InitializeResolvedUnchecked(s) ==
  LET se == session[s]
      done == [World EXCEPT !.session[s].initPc = "none",
                            !.session[s].initInProgress = FALSE]
  IN  /\ s \in Sessions
      /\ se.initPc = "initialize"
      /\ SetWorld(
           IF se.fatalInitError THEN done
           ELSE SafePost([done EXCEPT !.session[s].state = "running"],
                         s, <<"SESSION_READY">>))
      /\ Handled
      /\ UNCHANGED <<settingsStore, settingsCache, shutdownPc>>

\* asr.initialize resolved.
InitializeResolved(s) ==
  LET se == session[s]
      done == [World EXCEPT !.session[s].initPc = "none",
                            !.session[s].initInProgress = FALSE]
  IN  /\ s \in Sessions
      /\ se.initPc = "initialize"
      /\ SetWorld(
           IF se.isDisposed \/ se.fatalInitError THEN done
           ELSE SafePost([done EXCEPT !.session[s].state = "running"],
                         s, <<"SESSION_READY">>))
      /\ Handled
      /\ UNCHANGED <<settingsStore, settingsCache, shutdownPc>>

\* asr.initialize rejected: the catch block.
InitializeThrew(s) ==
  LET posted == SafePost(World, s, SessionError("ASR_INIT_FAILED", TRUE))
      failed == [posted EXCEPT !.session[s].state = "error"]
  IN  /\ s \in Sessions
      /\ session[s].initPc = "initialize"
      /\ SetWorld([Dispose(failed, s, "asr_init_failed")
                     EXCEPT !.session[s].initPc = "none",
                            !.session[s].initInProgress = FALSE])
      /\ Handled
      /\ UNCHANGED <<settingsStore, settingsCache, shutdownPc>>

\* The onError callback: engine e, which holds callbacks of session s and was
\* not disposed, reports an error.
EngineError(s, e, fatal) ==
  LET se == session[s]
      posted == SafePost(World, s, SessionError("ASR_ERROR", fatal))
      failed == [posted EXCEPT
                   !.session[s].state = "error",
                   !.session[s].fatalInitError =
                      IF se.initPc = "initialize" /\ se.initEngine = e THEN TRUE ELSE @]
  IN  /\ s \in Sessions
      /\ e \in se.callbacks
      /\ disposeCalls[e] = 0
      /\ Len(se.outbox) < MaxPosted
      /\ SetWorld(IF fatal THEN Dispose(failed, s, "ASR_ERROR") ELSE posted)
      /\ Handled
      /\ UNCHANGED <<settingsStore, settingsCache, shutdownPc>>

\* handleIncoming, PLAYBACK_STATE, up to the await of asr.setPlaybackState.
ReceivePlaybackState(s, st) ==
  /\ Receives(s)
  /\ session' =
       [session EXCEPT
          ![s].heartbeatAge = 0,
          ![s].playback =
             IF session[s].engines # << >> /\ st = "paused" THEN @ \cup {st} ELSE @]
  /\ Handled
  /\ UNCHANGED <<pools, disposeCalls, engineKey, registry,
                 settingsStore, settingsCache, shutdownPc>>

\* asr.setPlaybackState resolved: the assignment after the await.
PlaybackResolved(s, st) ==
  /\ s \in Sessions
  /\ st \in session[s].playback
  /\ session' =
       [session EXCEPT
          ![s].playback = @ \ {st},
          ![s].state = IF st = "paused" THEN "paused" ELSE @]
  /\ Handled
  /\ UNCHANGED <<pools, disposeCalls, engineKey, registry,
                 settingsStore, settingsCache, shutdownPc>>

\* asr.setPlaybackState rejected: the handler ends without the assignment.
PlaybackRejected(s, st) ==
  /\ s \in Sessions
  /\ st \in session[s].playback
  /\ session' = [session EXCEPT ![s].playback = @ \ {st}]
  /\ Handled
  /\ UNCHANGED <<pools, disposeCalls, engineKey, registry,
                 settingsStore, settingsCache, shutdownPc>>

\* Whether handleAudioChunk enters flushAudioQueue after queueing a chunk
\* with no test of flushingAudio, and with the test always failing.
StartsFlushAlways(se) == TRUE

StartsFlushNever(se) == FALSE

\* Whether handleAudioChunk enters flushAudioQueue after queueing a chunk.
StartsFlush(se) == ~se.flushingAudio

\* Array.shift(): the head of the queue and what stays.
Shift(queue) == [chunk |-> Head(queue), rest |-> Tail(queue)]

\* One turn of the loop of flushAudioQueue up to its await: the next chunk is
\* shifted and handed to asr.pushAudio, or the loop ends and the handler that
\* entered it clears flushingAudio.
FlushStep(se) ==
  IF Len(se.pendingAudioChunks) > 0 /\ se.engines # << >> /\ ~se.isDisposed
    THEN LET sh == Shift(se.pendingAudioChunks)
         IN  [se EXCEPT !.pendingAudioChunks = sh.rest,
                        !.pushing = @ \cup {sh.chunk},
                        !.pushLog = Append(@, sh.chunk)]
    ELSE [se EXCEPT !.flushingAudio = FALSE]

\* A chunk at a queue that holds maxQueue or more with drop-oldest.
QueuedDropOldest(se, maxQueue) ==
  IF Len(se.pendingAudioChunks) >= maxQueue
    THEN [se EXCEPT !.droppedAudioChunks = @ + 1,
                    !.receivedAudioChunks = @ + 1,
                    !.pendingAudioChunks = Append(Tail(@), se.receivedAudioChunks + 1)]
    ELSE [se EXCEPT !.receivedAudioChunks = @ + 1,
                    !.pendingAudioChunks = Append(@, se.receivedAudioChunks + 1)]

\* The chunk dropped at a full queue, or counted and queued.
Queued(se, maxQueue) ==
  IF Len(se.pendingAudioChunks) >= maxQueue
    THEN [se EXCEPT !.droppedAudioChunks = @ + 1]
    ELSE [se EXCEPT !.receivedAudioChunks = @ + 1,
                    !.pendingAudioChunks = Append(@, se.receivedAudioChunks + 1)]

\* The early returns of handleAudioChunk with the test of state left out.
TakesAudioInAnyState(se) == se.settings # << >> /\ se.engines # << >>

\* The chunk passes the two early returns of handleAudioChunk.
TakesAudio(se) ==
  /\ ~(se.state # "running" \/ se.settings = << >>)
  /\ ~(se.engines = << >>)

\* handleAudioChunk up to its await of flushAudioQueue, for a page that sends
\* no more than `chunks` chunks.
ReceiveAudioChunkUpTo(s, chunks) ==
  LET se == [session[s] EXCEPT !.heartbeatAge = 0]
      maxQueue == se.settings[1].runtime.maxPendingAudioChunks
      queued == Queued(se, maxQueue)
  IN  /\ Receives(s)
      /\ se.receivedAudioChunks + se.droppedAudioChunks < chunks
      /\ session' =
           [session EXCEPT ![s] =
              IF ~TakesAudio(se) THEN se
              ELSE IF Len(se.pendingAudioChunks) >= maxQueue THEN queued
              ELSE IF StartsFlush(se)
                THEN FlushStep([queued EXCEPT !.flushingAudio = TRUE])
                ELSE queued]
      /\ lastOutcome' = IF TakesAudio(se) THEN NoOutcome ELSE ChunkIgnored
      /\ UNCHANGED <<lastCall, calls, reacquired>>
      /\ UNCHANGED <<pools, disposeCalls, engineKey, registry,
                     settingsStore, settingsCache, shutdownPc>>

ReceiveAudioChunk(s) == ReceiveAudioChunkUpTo(s, MaxChunks)

\* asr.pushAudio(chunk) resolved: the loop goes on (pushedAudioChunks, which
\* only the debug output reads, is not kept).
PushResolved(s, chunk) ==
  /\ s \in Sessions
  /\ chunk \in session[s].pushing
  /\ session' =
       [session EXCEPT ![s] =
          FlushStep([session[s] EXCEPT !.pushing = @ \ {chunk}])]
  /\ Handled
  /\ UNCHANGED <<pools, disposeCalls, engineKey, registry,
                 settingsStore, settingsCache, shutdownPc>>

\* asr.pushAudio(chunk) rejected, with a catch block that puts the chunk back
\* at the head of the queue.
PushRejectedRequeues(s, chunk) ==
  /\ s \in Sessions
  /\ chunk \in session[s].pushing
  /\ session' =
       [session EXCEPT ![s] =
          FlushStep([session[s] EXCEPT !.pushing = @ \ {chunk},
                                       !.pendingAudioChunks = <<chunk>> \o @])]
  /\ lastOutcome' = PushFailed
  /\ UNCHANGED <<lastCall, calls, reacquired>>
  /\ UNCHANGED <<pools, disposeCalls, engineKey, registry,
                 settingsStore, settingsCache, shutdownPc>>

\* asr.pushAudio(chunk) rejected: the catch block logs and the loop goes on.
PushRejected(s, chunk) ==
  /\ s \in Sessions
  /\ chunk \in session[s].pushing
  /\ session' =
       [session EXCEPT ![s] = FlushStep([session[s] EXCEPT !.pushing = @ \ {chunk}])]
  /\ lastOutcome' = PushFailed
  /\ UNCHANGED <<lastCall, calls, reacquired>>
  /\ UNCHANGED <<pools, disposeCalls, engineKey, registry,
                 settingsStore, settingsCache, shutdownPc>>

\* translatedText of a segment that was not translated.
Undefined == "undefined"

\* What translator.translate resolves with for a segment's text.
Translated(segment) == <<"translated", segment>>

\* The payload as far as it is followed: revision, text (the segment's number
\* stands for its text) and translatedText.
TranscriptUpdate(revision, segment, translatedText) ==
  <<"TRANSCRIPT_UPDATE", revision, segment, translatedText>>

\* The end of handleAsrSegment with the increment of revision left out.
PostTranscriptSameRevision(w, s, segment, translatedText) ==
  SafePost(w, s, TranscriptUpdate(w.session[s].revision, segment, translatedText))

\* The end of handleAsrSegment: revision is incremented and the update posted.
PostTranscript(w, s, segment, translatedText) ==
  SafePost([w EXCEPT !.session[s].revision = @ + 1], s,
           TranscriptUpdate(w.session[s].revision + 1, segment, translatedText))

\* shouldTranslate with the test of partialTranslation left out.
ShouldTranslateFinalOnly(settings, isFinal) ==
  settings.translation.enabled /\ isFinal

\* shouldTranslate of handleAsrSegment.
ShouldTranslate(settings, isFinal) ==
  /\ settings.translation.enabled
  /\ isFinal \/ settings.runtime.partialTranslation

\* The onSegment callback: engine e, which holds callbacks of session s and
\* was not disposed, reports a segment; handleAsrSegment runs to its await of
\* translator.translate, or to its end when the segment is not translated.
EngineSegment(s, e, isFinal) ==
  LET se == session[s]
      segment == se.segments + 1
      counted == [World EXCEPT !.session[s].segments = segment]
  IN  /\ s \in Sessions
      /\ e \in se.callbacks
      /\ disposeCalls[e] = 0
      /\ se.segments < MaxSegments
      /\ SetWorld(
           IF se.engines = << >> \/ se.settings = << >> THEN counted
           ELSE IF ShouldTranslate(se.settings[1], isFinal)
             THEN [counted EXCEPT !.session[s].translating = @ \cup {segment}]
             ELSE PostTranscript(counted, s, segment, Undefined))
      /\ Handled
      /\ UNCHANGED <<settingsStore, settingsCache, shutdownPc>>

\* translator.translate resolved: handleAsrSegment goes on to post the update
\* with the translation.
TranslateResolved(s, segment) ==
  /\ s \in Sessions
  /\ segment \in session[s].translating
  /\ SetWorld(PostTranscript([World EXCEPT !.session[s].translating = @ \ {segment}],
                             s, segment, Translated(segment)))
  /\ Handled
  /\ UNCHANGED <<settingsStore, settingsCache, shutdownPc>>

\* translator.translate rejected: the catch block only logs, translatedText
\* stays undefined and handleAsrSegment goes on to post the update.
TranslateRejected(s, segment) ==
  /\ s \in Sessions
  /\ segment \in session[s].translating
  /\ SetWorld(PostTranscript([World EXCEPT !.session[s].translating = @ \ {segment}],
                             s, segment, Undefined))
  /\ lastOutcome' = TranslateFailed
  /\ UNCHANGED <<lastCall, calls, reacquired>>
  /\ UNCHANGED <<settingsStore, settingsCache, shutdownPc>>

\* handleIncoming, HEARTBEAT: the timestamp is the one the page sent.
ReceiveHeartbeat(s, skew) ==
  /\ Receives(s)
  /\ session' = [session EXCEPT ![s].heartbeatAge = skew]
  /\ Handled
  /\ UNCHANGED <<pools, disposeCalls, engineKey, registry,
                 settingsStore, settingsCache, shutdownPc>>

\* handleIncoming, SESSION_STOP.
ReceiveStop(s) ==
  /\ Receives(s)
  /\ SetWorld(Dispose(World, s, "stop"))
  /\ Handled
  /\ UNCHANGED <<settingsStore, settingsCache, shutdownPc>>

\* The other end of the port goes away: postMessage throws from here on.
PortCloses(s) ==
  /\ s \in Sessions
  /\ session[s].portOpen
  /\ session' = [session EXCEPT ![s].portOpen = FALSE]
  /\ Handled
  /\ UNCHANGED <<pools, disposeCalls, engineKey, registry,
                 settingsStore, settingsCache, shutdownPc>>

\* The port's onDisconnect event reaches the listener.
PortDisconnected(s) ==
  /\ s \in Sessions
  /\ session[s].port \in session[s].listeners
  /\ ~session[s].portOpen
  /\ SetWorld(Dispose(World, s, "port_disconnected"))
  /\ Handled
  /\ UNCHANGED <<settingsStore, settingsCache, shutdownPc>>

(* --------------------------- SessionManager ---------------------------- *)

\* replacePort(nextPort) leaving the listeners on the port replaced.
ReplacePortKeepsListeners(se, nextPort) ==
  [se EXCEPT !.listeners = @ \cup {nextPort}, !.port = nextPort]

\* replacePort(nextPort): unbindPort takes the listeners off this.port, then
\* this.port is the new port and bindPort puts the listeners on it.
ReplacePort(se, nextPort) ==
  [se EXCEPT !.listeners = (@ \ {se.port}) \cup {nextPort}, !.port = nextPort]

\* A SESSION_STOP message or the disconnect event on port q, one the session
\* was given before its last: it disposes the session if a listener of the
\* session is still on q.
StalePortEvent(s, q) ==
  /\ s \in Sessions
  /\ q \in 1..(session[s].attached - 1)
  /\ SetWorld(IF q \in session[s].listeners THEN Dispose(World, s, "stop") ELSE World)
  /\ Handled
  /\ UNCHANGED <<settingsStore, settingsCache, shutdownPc>>

\* The capacity test of attachPort letting the registry reach one more than
\* maxSessions.
AtCapacityAbove(size, maxSessions) == size > maxSessions

\* this.sessions.size >= this.settingsCache.runtime.maxSessions
AtCapacity(size, maxSessions) == size >= maxSessions

\* attachPort for a port whose sender has a tab: replaces the port of the
\* session registered under the id, or rejects at capacity (error posted to
\* the port, port disconnected, nothing kept), or constructs and registers a
\* new TabSession.
AttachPort(id, objects, ports) ==
  /\ shutdownPc = "none"
  /\ IF id \in DOMAIN registry
       THEN /\ session[registry[id]].attached + 1 \in ports
            /\ session' =
                 [session EXCEPT ![registry[id]] =
                    [ReplacePort(@, @.attached + 1) EXCEPT !.attached = @ + 1,
                                                           !.portOpen = TRUE]]
            /\ UNCHANGED registry
            /\ lastOutcome' = AttachRecord("replaced", << >>, FALSE)
       ELSE IF AtCapacity(Cardinality(DOMAIN registry), settingsCache.runtime.maxSessions)
         THEN /\ UNCHANGED <<session, registry>>
              /\ lastOutcome' =
                   AttachRecord("rejected", SessionError("MAX_SESSIONS_REACHED", TRUE), TRUE)
         ELSE /\ Len(session) + 1 \in objects
              /\ session' = Append(session, NewSession(id))
              /\ registry' = MapSet(registry, id, Len(session) + 1)
              /\ lastOutcome' = AttachRecord("created", << >>, FALSE)
  /\ UNCHANGED <<lastCall, calls, reacquired>>
  /\ UNCHANGED <<pools, disposeCalls, engineKey,
                 settingsStore, settingsCache, shutdownPc>>

\* The decimal digits of a number, as template literals write it.
DigitChars == <<"0", "1", "2", "3", "4", "5", "6", "7", "8", "9">>

RECURSIVE Decimal(_)
Decimal(n) ==
  IF n < 10 THEN <<DigitChars[n + 1]>>
  ELSE Decimal(n \div 10) \o <<DigitChars[(n % 10) + 1]>>

\* `${tabId}:${frameId}`, the key of the registry, as its characters.
SessionIdString(id) == Decimal(id[1]) \o <<":">> \o Decimal(id[2])

\* String.prototype.startsWith
StartsWith(str, prefix) ==
  /\ Len(prefix) <= Len(str)
  /\ SubSeq(str, 1, Len(prefix)) = prefix

\* The test of detachTab with the colon left out of the prefix.
BelongsToTabByDigits(id, tabId) == StartsWith(SessionIdString(id), Decimal(tabId))

\* sessionId.startsWith(`${tabId}:`)
BelongsToTab(id, tabId) == StartsWith(SessionIdString(id), Decimal(tabId) \o <<":">>)

\* detachTab(tabId)
DetachTab(tabId) ==
  LET detached == {id \in DOMAIN registry : BelongsToTab(id, tabId)}
  IN  /\ shutdownPc = "none"
      /\ SetWorld(DisposeEach(World, {registry[id] : id \in detached}, "tab_closed"))
      /\ lastOutcome' = DetachRecord(detached)
      /\ UNCHANGED <<lastCall, calls, reacquired>>
      /\ UNCHANGED <<settingsStore, settingsCache, shutdownPc>>

\* cleanupExpiredSessions, run by the health timer until shutdown clears it.
CleanupExpiredSessions ==
  LET expired == {id \in DOMAIN registry : isHeartbeatExpired(session[registry[id]])}
  IN  /\ shutdownPc = "none"
      /\ SetWorld(DisposeEach(World, {registry[id] : id \in expired}, "heartbeat_timeout"))
      /\ lastOutcome' = SweepRecord(expired)
      /\ UNCHANGED <<lastCall, calls, reacquired>>
  /\ UNCHANGED <<settingsStore, settingsCache, shutdownPc>>

\* Time passes.
Tick ==
  /\ \E s \in Sessions : session[s].heartbeatAge < TickMs
  /\ session' = [s \in Sessions |-> [session[s] EXCEPT !.heartbeatAge = TickMs]]
  /\ Handled
  /\ UNCHANGED <<pools, disposeCalls, engineKey, registry,
                 settingsStore, settingsCache, shutdownPc>>

\* shutdown() up to its first await: every session disposed, registry cleared.
ShutdownStart ==
  /\ shutdownPc = "none"
  /\ SetWorld([DisposeEach(World, {registry[id] : id \in DOMAIN registry}, "manager_shutdown")
                 EXCEPT !.registry = << >>])
  /\ shutdownPc' = "asrPool"
  /\ Handled
  /\ UNCHANGED <<settingsStore, settingsCache>>

\* shutdown(): asrPool.disposeAll(), then translatorPool.disposeAll().
ShutdownDrain ==
  /\ shutdownPc \in {"asrPool", "translatorPool"}
  /\ SetPoolState(DisposeAllIn(PoolState, IF shutdownPc = "asrPool" THEN "asr" ELSE "translator"))
  /\ shutdownPc' = IF shutdownPc = "asrPool" THEN "translatorPool" ELSE "done"
  /\ Handled
  /\ UNCHANGED <<session, registry, settingsStore, settingsCache>>

\* The idle timer of an entry of either pool elapses (ENGINE_IDLE_DISPOSE_MS
\* after the release that armed it).
EngineIdleTimeout(p, key) ==
  /\ Has(pools[p], key)
  /\ pools[p].entries[key].idleTimer
  /\ SetPoolState(TimerIn(PoolState, p, key, FALSE))
  /\ Handled
  /\ UNCHANGED <<session, registry, settingsStore, settingsCache, shutdownPc>>

\* The user saves other settings (setSettings from the options page).
UserChangesSettings(c) ==
  /\ c # settingsStore
  /\ settingsStore' = c
  /\ Handled
  /\ UNCHANGED <<pools, disposeCalls, engineKey, session, registry,
                 settingsCache, shutdownPc>>

\* refreshSettings()
RefreshSettings ==
  /\ settingsCache # settingsStore
  /\ settingsCache' = settingsStore
  /\ Handled
  /\ UNCHANGED <<pools, disposeCalls, engineKey, session, registry,
                 settingsStore, shutdownPc>>

(* --------------------------- pool harness ------------------------------ *)

\* A caller of one EnginePool that may call acquire, release and disposeAll
\* in any order, release without a matching acquire included.
CallAcquire(key) ==
  LET got == AcquireIn(PoolState, "asr", key)
  IN  /\ calls < MaxCalls
      /\ calls' = calls + 1
      /\ SetPoolState(got.ps)
      /\ reacquired' = [reacquired EXCEPT !["asr"][key] = Has(pools["asr"], key)]
      /\ lastCall' = CallRecord("acquire", "asr", key, got.engine, got.created)
      /\ UNCHANGED managerVars

CallRelease(key) ==
  /\ calls < MaxCalls
  /\ calls' = calls + 1
  /\ SetPoolState(ReleaseIn(PoolState, "asr", key))
  /\ reacquired' =
       IF Has(pools["asr"], key) /\ pools["asr"].entries[key].refCount - 1 = 0
         THEN [reacquired EXCEPT !["asr"][key] = FALSE]
         ELSE reacquired
  /\ lastCall' = CallRecord("release", "asr", key, 0, FALSE)
  /\ UNCHANGED managerVars

\* The caller passes a factory that throws.
CallAcquireThrowing(key) ==
  LET got == acquireThrowing(pools["asr"], key)
  IN  /\ calls < MaxCalls
      /\ calls' = calls + 1
      /\ pools' = [pools EXCEPT !["asr"] = got.pool]
      /\ reacquired' = IF got.threw THEN reacquired
                       ELSE [reacquired EXCEPT !["asr"][key] = TRUE]
      /\ lastCall' = CallRecord(IF got.threw THEN "acquire-threw" ELSE "acquire",
                                "asr", key, got.engine, FALSE)
      /\ UNCHANGED <<disposeCalls, engineKey, managerVars>>

CallDisposeAll ==
  /\ calls < MaxCalls
  /\ calls' = calls + 1
  /\ SetPoolState(DisposeAllIn(PoolState, "asr"))
  /\ UNCHANGED reacquired
  /\ lastCall' = [NoCall EXCEPT !.op = "disposeAll"]
  /\ UNCHANGED managerVars

PoolTimer ==
  \E p \in PoolNames : \E key \in PoolKeys(p) :
    /\ \/ IdleTimerFires(p, key)
       \/ OrphanTimerFires(p, key)
    /\ UNCHANGED <<calls, managerVars>>

\* The state after SessionManager.create(): no session, two empty pools.
Init ==
  /\ pools = [p \in PoolNames |-> EmptyPool(p)]
  /\ disposeCalls = << >>
  /\ engineKey = << >>
  /\ lastCall = NoCall
  /\ reacquired = [p \in PoolNames |-> [k \in PoolKeys(p) |-> FALSE]]
  /\ calls = 0
  /\ session = << >>
  /\ registry = << >>
  /\ settingsStore = InitialSettings
  /\ settingsCache = InitialSettings
  /\ shutdownPc = "none"
  /\ lastOutcome = NoOutcome

NextPool ==
  \/ \E key \in PoolKeys("asr") : CallAcquire(key)
  \/ \E key \in PoolKeys("asr") : CallRelease(key)
  \/ CallDisposeAll
  \/ PoolTimer

SpecPool == Init /\ [][NextPool]_vars

\* The same caller with factories that may throw.
NextPoolFactory ==
  \/ NextPool
  \/ \E key \in PoolKeys("asr") : CallAcquireThrowing(key)

SpecPoolFactory == Init /\ [][NextPoolFactory]_vars

(* ------------------------- the composed system ------------------------- *)

Versions == {VT_CHANNEL_VERSION, VT_CHANNEL_VERSION + 1}

\* Several sessions over the two shared pools: what reaches a pool (the Init
\* handler, the idle timers, shutdown) and what disposes a session at any
\* point of it (stop, a fatal engine error, detachTab, shutdown). Non-fatal
\* errors, playback, heartbeats, the sweep and the closing of a port are in
\* SpecSession: they reach a pool only through dispose.
Next ==
  \/ \E s \in SessionObjects : \E version \in Versions : \E isLive \in BOOLEAN :
       ReceiveInit(s, version, isLive)
  \/ \E s \in SessionObjects : InitSettingsLoaded(s)
  \/ \E s \in SessionObjects : InitSettingsFailed(s)
  \/ \E s \in SessionObjects : InitializeResolved(s)
  \/ \E s \in SessionObjects : InitializeThrew(s)
  \/ \E s \in SessionObjects : \E e \in Engines : EngineError(s, e, TRUE)
  \/ \E s \in SessionObjects : ReceiveStop(s)
  \/ \E id \in Idents : AttachPort(id, SessionObjects, OnePort)
  \/ \E tabId \in Tabs : DetachTab(tabId)
  \/ ShutdownStart
  \/ ShutdownDrain
  \/ \E c \in SettingsChoices : UserChangesSettings(c)
  \/ \E p \in PoolNames : \E key \in PoolKeys(p) : EngineIdleTimeout(p, key)

Spec == Init /\ [][Next]_vars

\* One session with everything that can happen to it.
NextSession ==
  \/ \E s \in OneSession : \E version \in Versions : \E isLive \in BOOLEAN :
       ReceiveInit(s, version, isLive)
  \/ \E s \in OneSession : InitSettingsLoaded(s)
  \/ \E s \in OneSession : InitSettingsFailed(s)
  \/ \E s \in OneSession : InitializeResolved(s)
  \/ \E s \in OneSession : InitializeThrew(s)
  \/ \E s \in OneSession : \E e \in Engines : \E fatal \in BOOLEAN : EngineError(s, e, fatal)
  \/ \E s \in OneSession : \E st \in PlaybackStates : ReceivePlaybackState(s, st)
  \/ \E s \in OneSession : \E st \in PlaybackStates : PlaybackResolved(s, st)
  \/ \E s \in OneSession : \E st \in PlaybackStates : PlaybackRejected(s, st)
  \/ \E s \in OneSession : \E skew \in HeartbeatSkews : ReceiveHeartbeat(s, skew)
  \/ \E s \in OneSession : ReceiveStop(s)
  \/ \E s \in OneSession : PortCloses(s)
  \/ \E s \in OneSession : PortDisconnected(s)
  \/ \E id \in Idents : AttachPort(id, OneSession, OnePort)
  \/ \E tabId \in Tabs : DetachTab(tabId)
  \/ CleanupExpiredSessions
  \/ Tick
  \/ ShutdownStart
  \/ ShutdownDrain
  \/ \E c \in SettingsChoices : UserChangesSettings(c)
  \/ RefreshSettings
  \/ \E p \in PoolNames : \E key \in PoolKeys(p) : EngineIdleTimeout(p, key)

SpecSession == Init /\ [][NextSession]_vars

\* One session and its audio queue: Init (twice at most, with the settings
\* the user may have changed in between), chunks arriving, pushAudio
\* resolving or rejecting, and stop.
NextAudio ==
  \/ \E id \in OneIdent : AttachPort(id, OneSession, OnePort)
  \/ \E s \in OneSession : \E version \in Versions : \E isLive \in BOOLEAN :
       ReceiveInitUpTo(s, version, isLive, MaxAudioInits)
  \/ \E s \in OneSession : InitSettingsLoaded(s)
  \/ \E s \in OneSession : InitializeResolved(s)
  \/ \E s \in OneSession : ReceiveAudioChunk(s)
  \/ \E s \in OneSession : \E chunk \in 1..MaxChunks : PushResolved(s, chunk)
  \/ \E s \in OneSession : \E chunk \in 1..MaxChunks : PushRejected(s, chunk)
  \/ \E s \in OneSession : ReceiveStop(s)
  \/ \E c \in SettingsChoices : UserChangesSettings(c)

SpecAudio == Init /\ [][NextAudio]_vars

\* One session receiving chunks in every state: before and during Init,
\* running, paused, and with time passing between the messages.
NextAudioStates ==
  \/ \E id \in OneIdent : AttachPort(id, OneSession, OnePort)
  \/ \E s \in OneSession : ReceiveInit(s, VT_CHANNEL_VERSION, TRUE)
  \/ \E s \in OneSession : InitSettingsLoaded(s)
  \/ \E s \in OneSession : InitializeResolved(s)
  \/ \E s \in OneSession : \E st \in PlaybackStates : ReceivePlaybackState(s, st)
  \/ \E s \in OneSession : \E st \in PlaybackStates : PlaybackResolved(s, st)
  \/ \E s \in OneSession : \E st \in PlaybackStates : PlaybackRejected(s, st)
  \/ \E s \in OneSession : ReceiveAudioChunk(s)
  \/ \E s \in OneSession : \E chunk \in 1..MaxChunks : PushResolved(s, chunk)
  \/ \E s \in OneSession : \E chunk \in 1..MaxChunks : PushRejected(s, chunk)
  \/ Tick

SpecAudioStates == Init /\ [][NextAudioStates]_vars

\* Two sessions initialised from the same settings, hence holding the same
\* pooled engines, each receiving chunks and running its own flush loop.
NextSharedEngine ==
  \/ \E id \in Idents : AttachPort(id, SessionObjects, OnePort)
  \/ \E s \in SessionObjects : ReceiveInit(s, VT_CHANNEL_VERSION, TRUE)
  \/ \E s \in SessionObjects : InitSettingsLoaded(s)
  \/ \E s \in SessionObjects : InitializeResolved(s)
  \/ \E s \in SessionObjects : ReceiveAudioChunkUpTo(s, MaxSharedChunks)
  \/ \E s \in SessionObjects : \E chunk \in 1..MaxSharedChunks : PushResolved(s, chunk)
  \/ \E s \in SessionObjects : \E chunk \in 1..MaxSharedChunks : PushRejected(s, chunk)
  \/ \E s \in SessionObjects : ReceiveStop(s)

SpecSharedEngine == Init /\ [][NextSharedEngine]_vars

\* One session and its transcript: Init, segments reported by the engine,
\* translations completing in any order, the port closing and being
\* replaced by a new attach, and stop.
NextTranscript ==
  \/ \E id \in OneIdent : AttachPort(id, OneSession, SessionPorts)
  \/ \E s \in OneSession : \E version \in Versions : \E isLive \in BOOLEAN :
       ReceiveInit(s, version, isLive)
  \/ \E s \in OneSession : InitSettingsLoaded(s)
  \/ \E s \in OneSession : InitializeResolved(s)
  \/ \E s \in OneSession : \E e \in Engines : \E isFinal \in BOOLEAN :
       EngineSegment(s, e, isFinal)
  \/ \E s \in OneSession : \E segment \in 1..MaxSegments : TranslateResolved(s, segment)
  \/ \E s \in OneSession : \E segment \in 1..MaxSegments : TranslateRejected(s, segment)
  \/ \E s \in OneSession : ReceiveStop(s)
  \/ \E s \in OneSession : PortCloses(s)
  \/ \E s \in OneSession : PortDisconnected(s)
  \/ \E s \in OneSession : \E q \in SessionPorts : StalePortEvent(s, q)
  \/ \E c \in SettingsChoices \cup {SettingsFinalOnly} : UserChangesSettings(c)

SpecTranscript == Init /\ [][NextTranscript]_vars

\* The registry: identities attaching and going away, sessions initialised,
\* stopped, disconnected and swept, with the settings, maxSessions included,
\* changing under them.
NextRegistry ==
  \/ \E id \in Idents : AttachPort(id, SessionObjects, OnePort)
  \/ \E s \in SessionObjects : ReceiveInit(s, VT_CHANNEL_VERSION, TRUE)
  \/ \E s \in SessionObjects : InitSettingsLoaded(s)
  \/ \E s \in SessionObjects : InitializeResolved(s)
  \/ \E s \in SessionObjects : ReceiveStop(s)
  \/ \E s \in SessionObjects : PortCloses(s)
  \/ \E s \in SessionObjects : PortDisconnected(s)
  \/ \E tabId \in Tabs : DetachTab(tabId)
  \/ CleanupExpiredSessions
  \/ Tick
  \/ \E c \in SettingsChoices : UserChangesSettings(c)
  \/ RefreshSettings

SpecRegistry == Init /\ [][NextRegistry]_vars

\* Identities of two frames of one tab and of a tab whose number begins with
\* the digits of the first.
TabIdents == {<<1, 0>>, <<1, 3>>, <<11, 0>>}

\* Tabs closing under sessions of several frames and tabs.
NextTabs ==
  \/ \E id \in TabIdents : AttachPort(id, SessionObjects, OnePort)
  \/ \E s \in SessionObjects : ReceiveInit(s, VT_CHANNEL_VERSION, TRUE)
  \/ \E s \in SessionObjects : InitSettingsLoaded(s)
  \/ \E s \in SessionObjects : InitializeResolved(s)
  \/ \E s \in SessionObjects : ReceiveStop(s)
  \/ \E s \in SessionObjects : PortCloses(s)
  \/ \E tabId \in {id[1] : id \in TabIdents} : DetachTab(tabId)

SpecTabs == Init /\ [][NextTabs]_vars

(* ------------------------ EnginePool properties ------------------------ *)

Entries(p) == pools[p].entries

\* The instances constructed for <<p, key>> on which dispose() was not called.
LiveEngines(p, key) ==
  {e \in Engines : engineKey[e] = <<p, key>> /\ disposeCalls[e] = 0}

\* C1: the factory of acquire(K, factory) runs only when the pool has no entry
\* for K, an acquire that finds an entry returns that entry's instance, and so
\* no key ever has two live instances.
C1_OneLiveInstancePerKey ==
  /\ lastCall.op = "acquire" =>
       /\ lastCall.created <=> ~lastCall.seen.hadEntry
       /\ lastCall.seen.hadEntry => lastCall.engine = lastCall.seen.prior
  /\ \A p \in PoolNames : \A key \in PoolKeys(p) :
       /\ Cardinality(LiveEngines(p, key)) <= 1
       /\ Has(pools[p], key) => LiveEngines(p, key) = {Entries(p)[key].engine}

\* An acquire found an entry and returned its instance while another key's
\* entry was live too.
C1_Witness ==
  /\ lastCall.op = "acquire"
  /\ lastCall.seen.hadEntry
  /\ lastCall.engine = lastCall.seen.prior
  /\ Cardinality(DOMAIN Entries("asr")) = 2

C4_DisposedIffNotReacquired ==
  /\ lastCall.op = "idle-dispose" => ~lastCall.seen.reacquired
  /\ lastCall.op = "idle-skip" /\ lastCall.seen.hadEntry => lastCall.seen.reacquired
  /\ lastCall.op = "acquire" /\ lastCall.seen.timer =>
       /\ lastCall.engine = lastCall.seen.prior
       /\ disposeCalls[lastCall.engine] = 0
       /\ ~Entries(lastCall.seen.pool)[lastCall.seen.key].idleTimer

\* C5: dispose() is called exactly once on every constructed instance: never
\* twice, and on every instance no entry holds any more (after disposeAll: on
\* all of them).
C5_DisposedExactlyOnce ==
  \A e \in Engines :
    LET p   == engineKey[e][1]
        key == engineKey[e][2]
        held == Has(pools[p], key) /\ Entries(p)[key].engine = e
    IN  disposeCalls[e] = IF held THEN 0 ELSE 1

\* disposeAll was the last call, and each of the instances constructed, two
\* or more, has been disposed once.
C5_Witness ==
  /\ lastCall.op = "disposeAll"
  /\ Len(disposeCalls) >= 2
  /\ \A e \in Engines : disposeCalls[e] = 1

\* Session s holds instance e of pool p under key: the pool has an entry for
\* the key, the entry's instance is e, its count is above 0, no timer is armed
\* on it and dispose() was never called on e.
HoldsLive(p, key, e) ==
  /\ Has(pools[p], key)
  /\ Entries(p)[key].engine = e
  /\ Entries(p)[key].refCount > 0
  /\ ~Entries(p)[key].idleTimer
  /\ disposeCalls[e] = 0

C6_RefCountNonNegative ==
  \A p \in PoolNames : \A key \in DOMAIN Entries(p) : Entries(p)[key].refCount >= 0

(* ------------------------ TabSession properties ------------------------ *)

\* The state changes the lifecycle allows.
AllowedTransitions ==
  {<<"idle", "running">>, <<"running", "paused">>, <<"running", "error">>,
   <<"running", "closed">>, <<"paused", "running">>}
    \cup {<<from, "closed">> : from \in {"idle", "running", "paused", "error", "closed"}}

\* C7: every change of a session's state is one of idle->running,
\* running->paused, running->error, running->closed, paused->running or
\* any->closed.
C7_OnlySpecifiedTransitions ==
  [][\A s \in Sessions :
       session'[s].state # session[s].state =>
         <<session[s].state, session'[s].state>> \in AllowedTransitions]_vars

\* C8: once a session is disposed and closed, its state never changes again.
C8_ClosedIsTerminal ==
  [][\A s \in Sessions :
       session[s].isDisposed /\ session[s].state = "closed" =>
         session'[s].state = "closed"]_vars

Count(seq, message) == Cardinality({i \in DOMAIN seq : seq[i] = message})

\* C9: whatever invokes dispose on a session and however often, the session
\* posts SESSION_STOPPED at most once, releases on each pool at most once and
\* calls deps.onClosed at most once.
C9_DisposeIdempotent ==
  \A s \in Sessions :
    /\ Count(session[s].outbox, <<"SESSION_STOPPED">>) <= 1
    /\ \A p \in PoolNames : session[s].released[p] <= 1
    /\ session[s].closedCalls <= 1

\* A session that held engines was disposed with its port open, and the
\* failure of asr.initialize or a fatal engine error then ran dispose on it
\* again (state 'error' is what such a handler leaves on a disposed session).
C9_Witness ==
  \E s \in Sessions :
    /\ session[s].isDisposed
    /\ session[s].state = "error"
    /\ Count(session[s].outbox, <<"SESSION_STOPPED">>) = 1
    /\ session[s].released["asr"] = 1
    /\ session[s].closedCalls = 1

\* C10: a disposed session with no handler in flight has released on each
\* pool as often as it acquired.
C10_ClosedReleasedAll ==
  \A s \in Sessions :
    session[s].isDisposed /\ session[s].initPc = "none" /\ session[s].playback = {} =>
      \A p \in PoolNames : session[s].acquired[p] = session[s].released[p]

(* --------------------------- audio properties -------------------------- *)

MaxQueue(se) == se.settings[1].runtime.maxPendingAudioChunks

\* C11: the pending audio queue of a session is never longer than
\* maxPendingAudioChunks of the settings the session holds.
C11_QueueWithinMax ==
  \A s \in Sessions :
    session[s].settings # << >> =>
      Len(session[s].pendingAudioChunks) <= MaxQueue(session[s])

\* A chunk reaches a running session whose queue holds maxPendingAudioChunks
\* or more.
ArrivesAtFullQueue(s) ==
  /\ ReceiveAudioChunk(s)
  /\ session[s].state = "running"
  /\ session[s].settings # << >>
  /\ Len(session[s].pendingAudioChunks) >= MaxQueue(session[s])

\* C12: a chunk that reaches a running session at a full queue leaves the
\* queue as it is and adds 1 to droppedAudioChunks; droppedAudioChunks never
\* decreases, and it changes in no other step.
C12_DropIncoming ==
  [][\A s \in Sessions :
       /\ ArrivesAtFullQueue(s) =>
            /\ session'[s].pendingAudioChunks = session[s].pendingAudioChunks
            /\ session'[s].droppedAudioChunks = session[s].droppedAudioChunks + 1
       /\ session'[s].droppedAudioChunks >= session[s].droppedAudioChunks
       /\ session'[s].droppedAudioChunks # session[s].droppedAudioChunks =>
            ArrivesAtFullQueue(s)]_vars

\* Chunks were dropped at a full queue of a running session.
C12_Witness ==
  \E s \in Sessions :
    /\ session[s].state = "running"
    /\ session[s].droppedAudioChunks >= 2
    /\ Len(session[s].pendingAudioChunks) = MaxQueue(session[s])

\* Scenario C: a session initialised once with maxPendingAudioChunks = 10 has
\* received 30 chunks while running, and no pushAudio call has resolved (no
\* second call was made).
ScenarioC(se) ==
  /\ se.state = "running"
  /\ se.acquired["asr"] = 1
  /\ MaxQueue(se) = ScenarioMaxPending
  /\ se.receivedAudioChunks + se.droppedAudioChunks = 30
  /\ Len(se.pushLog) <= 1

\* C13 as stated: Scenario C ends with 10 chunks queued and 20 dropped.
C13_ScenarioC_Dropped20 ==
  \A s \in Sessions :
    ScenarioC(session[s]) =>
      /\ Len(session[s].pendingAudioChunks) = 10
      /\ session[s].droppedAudioChunks = 20

\* C13 amended: Scenario C ends with 10 chunks queued and 19 dropped, the
\* first chunk being the one handed to the pushAudio call that is pending.
C13_ScenarioC_Dropped19 ==
  \A s \in Sessions :
    ScenarioC(session[s]) =>
      /\ Len(session[s].pendingAudioChunks) = 10
      /\ session[s].droppedAudioChunks = 19
      /\ session[s].pushing = {1}

\* The end of Scenario C.
C13_Witness == \E s \in Sessions : ScenarioC(session[s])

\* C14: at most one pushAudio call of a session is pending, and the chunks
\* are handed to pushAudio in the order they were accepted.
C14_SingleFlightFifo ==
  \A s \in Sessions :
    /\ Cardinality(session[s].pushing) <= 1
    /\ \A i \in DOMAIN session[s].pushLog : \A j \in DOMAIN session[s].pushLog :
         i < j => session[s].pushLog[i] < session[s].pushLog[j]

\* Several chunks were pushed one after the other, one push is pending and
\* more chunks wait behind it.
C14_Witness ==
  \E s \in Sessions :
    /\ Len(session[s].pushLog) >= 3
    /\ session[s].pushing # {}
    /\ Len(session[s].pendingAudioChunks) >= 2

(* ------------------------- transcript properties ------------------------ *)

\* The revisions of the TRANSCRIPT_UPDATE messages a session posted, in the
\* order of posting.
RECURSIVE Revisions(_)
Revisions(outbox) ==
  IF outbox = << >> THEN << >>
  ELSE IF Head(outbox)[1] = "TRANSCRIPT_UPDATE"
    THEN <<Head(outbox)[2]>> \o Revisions(Tail(outbox))
    ELSE Revisions(Tail(outbox))

\* C15: the TRANSCRIPT_UPDATE messages a session posted carry the revisions
\* 1, 2, 3, ... in the order of posting.
C15_RevisionsSequential ==
  \A s \in Sessions :
    LET revs == Revisions(session[s].outbox)
    IN  \A i \in DOMAIN revs : revs[i] = i

\* A later segment was posted before an earlier one whose translation took
\* longer, on a port that had replaced the session's first.
C15_Witness ==
  \E s \in Sessions :
    \E i \in DOMAIN session[s].outbox : \E j \in DOMAIN session[s].outbox :
      /\ session[s].port = 2
      /\ i < j
      /\ session[s].outbox[i][1] = "TRANSCRIPT_UPDATE"
      /\ session[s].outbox[j][1] = "TRANSCRIPT_UPDATE"
      /\ session[s].outbox[i][3] > session[s].outbox[j][3]

(* --------------------------- manager properties ------------------------- *)

\* C16: a sweep disposes a registered session if and only if the time since
\* its last heartbeat is above the heartbeat timeout when the sweep runs: one
\* at or below the timeout stays registered and open, and every one above it
\* is closed and out of the registry when the sweep has run.
C16_SweepIffExpired ==
  [][CleanupExpiredSessions =>
       \A id \in DOMAIN registry :
         LET s == registry[id]
         IN  IF session[s].heartbeatAge > SESSION_HEARTBEAT_TIMEOUT_MS
               THEN /\ id \notin DOMAIN registry'
                    /\ session'[s].isDisposed
                    /\ session'[s].state = "closed"
                    /\ session'[s].closedCalls = session[s].closedCalls + 1
               ELSE /\ id \in DOMAIN registry'
                    /\ registry'[id] = s
                    /\ session'[s] = session[s]]_vars

\* A sweep has just disposed a session whose heartbeat had expired.
C16_Witness ==
  /\ lastOutcome.outcome = "swept"
  /\ \E s \in Sessions :
       /\ session[s].sessionId \in lastOutcome.disposed
       /\ session[s].isDisposed
       /\ session[s].heartbeatAge > SESSION_HEARTBEAT_TIMEOUT_MS

\* C17: attachPort for an identity that has a registered session makes no
\* session and no registry entry; the session it finds keeps its state,
\* engines, queue and counters and has its listeners on the new port alone;
\* whatever a session posts goes to the port it was given last; and a message
\* or a disconnect on a port it was given before changes nothing.
C17_ReattachReplacesPort ==
  [][/\ \A id \in DOMAIN registry :
          AttachPort(id, OneSession, SessionPorts) =>
            LET s == registry[id]
                nextPort == session[s].attached + 1
            IN  /\ registry' = registry
                /\ Len(session') = Len(session)
                /\ session'[s] = [session[s] EXCEPT !.port = nextPort,
                                                    !.attached = nextPort,
                                                    !.listeners = {nextPort},
                                                    !.portOpen = TRUE]
     /\ \A s \in Sessions :
          session'[s].outbox # session[s].outbox =>
            session'[s].postedTo = session[s].attached
     /\ \A s \in Sessions : \A q \in SessionPorts :
          StalePortEvent(s, q) => session' = session /\ registry' = registry]_vars

\* A running session posts a transcript on its second port.
C17_Witness ==
  \E s \in Sessions :
    /\ session[s].attached = 2
    /\ session[s].port = 2
    /\ session[s].listeners = {2}
    /\ session[s].state = "running"
    /\ session[s].postedTo = 2
    /\ Revisions(session[s].outbox) # << >>

\* C18: a step that leaves maxSessions as it was never takes the registry
\* from within maxSessions to beyond it; attachPort with an identity that has
\* no session, at capacity, makes no session and no registry entry, posts a
\* fatal MAX_SESSIONS_REACHED SessionError on the port and disconnects it;
\* below capacity, as after a detach, it registers a session for the identity.
C18_RegistryWithinMaxSessions ==
  [][LET size == Cardinality(DOMAIN registry)
         maxSessions == settingsCache.runtime.maxSessions
     IN  /\ (settingsCache'.runtime.maxSessions = maxSessions /\ size <= maxSessions)
              => Cardinality(DOMAIN registry') <= maxSessions
         /\ \A id \in Idents \ DOMAIN registry :
              AttachPort(id, SessionObjects, OnePort) =>
                IF size >= maxSessions
                  THEN /\ session' = session
                       /\ registry' = registry
                       /\ lastOutcome'.outcome = "rejected"
                       /\ lastOutcome'.posted = <<"SESSION_ERROR", "MAX_SESSIONS_REACHED", TRUE>>
                       /\ lastOutcome'.disconnected
                  ELSE /\ DOMAIN registry' = DOMAIN registry \cup {id}
                       /\ Len(session') = Len(session) + 1
                       /\ session'[registry'[id]].sessionId = id
                       /\ ~session'[registry'[id]].isDisposed
                       /\ lastOutcome'.outcome = "created"]_vars

\* Scenario A at its second step: with maxSessions 1 and one session
\* registered, the attach of another identity has just been rejected.
C18_Witness ==
  /\ settingsCache.runtime.maxSessions = 1
  /\ Cardinality(DOMAIN registry) = 1
  /\ lastOutcome.outcome = "rejected"
  /\ lastOutcome.disconnected

(* ----------------------------- error properties -------------------------- *)

\* What the rejection of an Init leaves behind: the fatal SessionError with
\* the code, then Stopped, as the last two messages posted; the session
\* disposed and out of the registry; no settings snapshot loaded or being
\* loaded and no engine acquired by the step.
RejectedWith(s, code) ==
  /\ session'[s].outbox =
       session[s].outbox \o <<SessionError(code, TRUE), <<"SESSION_STOPPED">>>>
  /\ session'[s].isDisposed
  /\ session'[s].state = "closed"
  /\ session[s].sessionId \notin DOMAIN registry'
  /\ session'[s].settings = session[s].settings
  /\ session'[s].initPc = session[s].initPc
  /\ session'[s].acquired = session[s].acquired

\* The code of the rejection: the version is tested before the stream context.
RejectionCode(version) ==
  IF version # VT_CHANNEL_VERSION THEN "VERSION_MISMATCH" ELSE "NOT_LIVE_STREAM"

\* C19 as stated: every Init with another version than VT_CHANNEL_VERSION, or
\* with a stream context that is not live, is rejected.
C19_BadInitRejected ==
  [][\A s \in Sessions : \A version \in Versions : \A isLive \in BOOLEAN :
       (ReceiveInit(s, version, isLive) /\ (version # VT_CHANNEL_VERSION \/ ~isLive))
         => RejectedWith(s, RejectionCode(version))]_vars

\* C19: an Init with another version than VT_CHANNEL_VERSION, or with a stream
\* context that is not live, received while the duplicate-Init guard is open,
\* posts the fatal SessionError (VERSION_MISMATCH, respectively
\* NOT_LIVE_STREAM) and then Stopped, leaves the session disposed and out of
\* the registry, and loads no settings and acquires no engine.
C19_UnguardedBadInitRejected ==
  [][\A s \in Sessions : \A version \in Versions : \A isLive \in BOOLEAN :
       (/\ ReceiveInit(s, version, isLive)
        /\ ~session[s].initInProgress
        /\ (version # VT_CHANNEL_VERSION \/ ~isLive))
         => RejectedWith(s, RejectionCode(version))]_vars

\* Scenario D: a session whose first Init was rejected for its version.
C19_Witness ==
  \E s \in Sessions :
    /\ session[s].outbox = <<SessionError("VERSION_MISMATCH", TRUE), <<"SESSION_STOPPED">>>>
    /\ session[s].isDisposed
    /\ session[s].sessionId \notin DOMAIN registry
    /\ session[s].settings = << >>
    /\ session[s].acquired["asr"] = 0

\* A fatal error of session s happens in the step: an Init past the
\* duplicate guard is rejected for its version or its stream context,
\* asr.initialize throws, or an engine reports a fatal error to onError.
FatalErrorStep(s, code) ==
  \/ /\ code \in {"VERSION_MISMATCH", "NOT_LIVE_STREAM"}
     /\ ~session[s].initInProgress
     /\ \E version \in Versions : \E isLive \in BOOLEAN :
          /\ version # VT_CHANNEL_VERSION \/ ~isLive
          /\ code = RejectionCode(version)
          /\ ReceiveInit(s, version, isLive)
  \/ /\ code = "ASR_INIT_FAILED"
     /\ InitializeThrew(s)
  \/ /\ code = "ASR_ERROR"
     /\ \E e \in Engines : EngineError(s, e, TRUE)

FatalCodes == {"VERSION_MISMATCH", "NOT_LIVE_STREAM", "ASR_INIT_FAILED", "ASR_ERROR"}

\* C20: a fatal error of a session leaves the session disposed, and on an
\* open port it posts the SessionError with fatal = TRUE and after it Stopped,
\* with no Stopped before the SessionError.
C20_FatalErrorBeforeStopped ==
  [][\A s \in Sessions : \A code \in FatalCodes :
       FatalErrorStep(s, code) =>
         /\ session'[s].isDisposed
         /\ session[s].portOpen =>
              /\ session'[s].outbox =
                   session[s].outbox \o <<SessionError(code, TRUE), <<"SESSION_STOPPED">>>>
              /\ Count(session[s].outbox, <<"SESSION_STOPPED">>) = 0]_vars

(* ------------------------------ Init properties -------------------------- *)

\* The processing of an Init of session s fails in the step, after the
\* version and liveness checks: loadSettings rejects, asr.initialize throws,
\* or the engine being initialised reports a fatal error.
InitFailureStep(s) ==
  \/ InitSettingsFailed(s)
  \/ InitializeThrew(s)
  \/ /\ session[s].initPc = "initialize"
     /\ EngineError(s, session[s].initEngine, TRUE)

\* C21: a failure of Init processing after the version and liveness checks
\* leaves the session disposed and closed, without engines, with every
\* acquire of the session released, and with no registry entry.
C21_InitFailureDisposes ==
  [][\A s \in Sessions :
       InitFailureStep(s) =>
         /\ session'[s].isDisposed
         /\ session'[s].state = "closed"
         /\ session'[s].engines = << >>
         /\ session'[s].released = session'[s].acquired
         /\ \A id \in DOMAIN registry' : registry'[id] # s]_vars

\* C22: an Init received while the handler of an earlier Init of the session
\* is at one of its awaits changes nothing: no session field, so no state,
\* settings, engine or posted message, no pool, no registry entry and no
\* settings cache; and a session acquires only in the step in which the
\* settings load of the one Init being processed resolves, once per pool.
C22_DuplicateInitIgnored ==
  [][\A s \in Sessions :
       /\ \A version \in Versions : \A isLive \in BOOLEAN :
            (/\ ReceiveInitUpTo(s, version, isLive, MaxAudioInits)
             /\ session[s].initPc # "none")
              => /\ session' = session
                 /\ pools' = pools
                 /\ disposeCalls' = disposeCalls
                 /\ registry' = registry
                 /\ settingsCache' = settingsCache
       /\ session'[s].acquired # session[s].acquired
            => /\ session[s].initPc = "settings"
               /\ session'[s].initPc = "initialize"
               /\ \A p \in PoolNames : session'[s].acquired[p] = session[s].acquired[p] + 1]_vars

\* An Init has just been ignored while asr.initialize was pending, the
\* session holding its one acquire of each pool.
C22_Witness ==
  /\ lastOutcome = InitIgnored
  /\ \E s \in Sessions :
       /\ session[s].initPc = "initialize"
       /\ session[s].initInProgress
       /\ \A p \in PoolNames : session[s].acquired[p] = 1

\* C23: a session becomes running, and SESSION_READY is posted, only in the
\* step in which asr.initialize resolves for a session that is not disposed
\* and whose engine reported no fatal error during the initialisation, and
\* then both happen; a disposed session is never running and posts no
\* SESSION_READY.
C23_ReadyOnlyAfterInitialize ==
  [][\A s \in Sessions :
       LET becomesRunning == session[s].state # "running" /\ session'[s].state = "running"
           postsReady == Count(session'[s].outbox, <<"SESSION_READY">>)
                           # Count(session[s].outbox, <<"SESSION_READY">>)
       IN  /\ (becomesRunning \/ postsReady) =>
                /\ InitializeResolved(s)
                /\ ~session[s].isDisposed
                /\ ~session[s].fatalInitError
                /\ session'[s].state = "running"
                /\ session'[s].outbox = Append(session[s].outbox, <<"SESSION_READY">>)
           /\ session'[s].isDisposed => session'[s].state # "running"]_vars

\* A session that is running, has posted SESSION_READY and nothing after it.
C23_Witness ==
  \E s \in Sessions :
    /\ session[s].state = "running"
    /\ ~session[s].isDisposed
    /\ session[s].initPc = "none"
    /\ session[s].outbox = <<<<"SESSION_READY">>>>

(* ---------------------------- shutdown properties ------------------------ *)

\* No handler of session s is at an await.
Quiescent(s) ==
  /\ session[s].initPc = "none"
  /\ session[s].pushing = {}
  /\ session[s].translating = {}
  /\ session[s].playback = {}

\* C24: when shutdown has run to its end and no handler of any session is at
\* an await, the registry is empty, both pools are empty and every engine
\* instance that was constructed has been disposed.
C24_ShutdownDrainsAll ==
  (shutdownPc = "done" /\ \A s \in Sessions : Quiescent(s)) =>
    /\ registry = << >>
    /\ \A p \in PoolNames : pools[p].entries = << >>
    /\ \A e \in Engines : disposeCalls[e] >= 1

(* ---------------------------- detachTab properties ----------------------- *)

\* C25: detachTab(tabId) disposes every registered session whose identity
\* has that tab, whatever its frame, and leaves every registered session of
\* another tab as it was, registry entry included.
C25_DetachTabOnlyThatTab ==
  [][\A tabId \in {id[1] : id \in TabIdents} :
       DetachTab(tabId) =>
         \A id \in DOMAIN registry :
           LET s == registry[id]
           IN  IF id[1] = tabId
                 THEN /\ id \notin DOMAIN registry'
                      /\ session'[s].isDisposed
                      /\ session'[s].state = "closed"
                 ELSE /\ id \in DOMAIN registry'
                      /\ registry'[id] = s
                      /\ session'[s] = session[s]]_vars

\* detachTab has just disposed the sessions of both frames of tab 1.
C25_Witness ==
  /\ lastOutcome.outcome = "detached"
  /\ lastOutcome.disposed = {<<1, 0>>, <<1, 3>>}
  /\ \A s \in Sessions : session[s].isDisposed

(* ----------------------------- factory properties ------------------------ *)

\* C26: when the factory throws on a miss, the caller gets the exception
\* and the pool is as it was: no entry for the key, and every other entry
\* with its instance, count and timer, and no instance constructed or
\* disposed.
C26_FactoryThrowLeavesPool ==
  [][\A key \in PoolKeys("asr") :
       (CallAcquireThrowing(key) /\ ~Has(pools["asr"], key)) =>
         /\ lastCall'.op = "acquire-threw"
         /\ ~Has(pools'["asr"], key)
         /\ pools' = pools
         /\ disposeCalls' = disposeCalls
         /\ engineKey' = engineKey]_vars

\* The factory has just thrown for one key while the pool holds an entry of
\* another key whose idle timer is armed.
C26_Witness ==
  /\ lastCall.op = "acquire-threw"
  /\ \E key \in DOMAIN pools["asr"].entries :
       /\ pools["asr"].entries[key].idleTimer
       /\ pools["asr"].entries[key].refCount = 0

(* ------------------------- audio gate properties ------------------------- *)

\* C27: an AudioChunk that arrives while the session is not running, or has
\* no engines, sets the time since the last heartbeat to 0 and changes no
\* other field of the session (queue, counts, flush flag, pushes in flight),
\* no pool and no registry entry.
C27_ChunkIgnoredOutsideRunning ==
  [][\A s \in Sessions :
       (/\ ReceiveAudioChunk(s)
        /\ (session[s].state # "running" \/ session[s].engines = << >>))
         => /\ session'[s] = [session[s] EXCEPT !.heartbeatAge = 0]
            /\ pools' = pools
            /\ registry' = registry]_vars

\* A chunk has just been ignored by a paused session that holds engines,
\* with a push still in flight and chunks queued behind it.
C27_Witness ==
  /\ lastOutcome = ChunkIgnored
  /\ \E s \in Sessions :
       /\ session[s].state = "paused"
       /\ session[s].engines # << >>
       /\ session[s].pushing # {}
       /\ Len(session[s].pendingAudioChunks) > 0
       /\ session[s].heartbeatAge = 0

\* C28: once a session is disposed its queue is empty and no pushAudio is
\* started for it: the step that disposes it and every later step leave the
\* log of pushes as it was, and a push that settles afterwards ends the
\* flush loop.
C28_NoPushAfterDispose ==
  [][\A s \in Sessions :
       (s \in DOMAIN session' /\ session'[s].isDisposed)
         => /\ session'[s].pendingAudioChunks = << >>
            /\ session'[s].pushLog = session[s].pushLog
            /\ \A chunk \in session[s].pushing :
                 (PushResolved(s, chunk) \/ PushRejected(s, chunk))
                   => ~session'[s].flushingAudio]_vars

\* A session disposed in the middle of a flush: chunks it had counted were
\* neither dropped nor pushed, and the loop has ended.
C28_Witness ==
  \E s \in Sessions :
    /\ session[s].isDisposed
    /\ session[s].droppedAudioChunks = 0
    /\ Len(session[s].pushLog) >= 1
    /\ Len(session[s].pushLog) + 2 <= session[s].receivedAudioChunks
    /\ session[s].pushing = {}
    /\ ~session[s].flushingAudio

\* C29: a rejected pushAudio leaves the session's state, its disposal flag,
\* its engines, its counters and its outbox as they were; the failed chunk is
\* neither queued nor in flight afterwards; and while the session is live and
\* chunks are queued the head of the queue is the next chunk pushed, the rest
\* of the queue keeping its order.
C29_PushFailureNonFatal ==
  [][\A s \in Sessions : \A chunk \in session[s].pushing :
       PushRejected(s, chunk)
         => LET before == session[s]
                after == session'[s]
                goesOn == /\ Len(before.pendingAudioChunks) > 0
                          /\ before.engines # << >>
                          /\ ~before.isDisposed
            IN  /\ after.state = before.state
                /\ after.isDisposed = before.isDisposed
                /\ after.engines = before.engines
                /\ after.outbox = before.outbox
                /\ after.receivedAudioChunks = before.receivedAudioChunks
                /\ after.droppedAudioChunks = before.droppedAudioChunks
                /\ chunk \notin after.pushing
                /\ \A i \in 1..Len(after.pendingAudioChunks) :
                     after.pendingAudioChunks[i] # chunk
                /\ registry' = registry
                /\ pools' = pools
                /\ IF goesOn
                     THEN /\ after.pushLog =
                               Append(before.pushLog, Head(before.pendingAudioChunks))
                          /\ after.pendingAudioChunks = Tail(before.pendingAudioChunks)
                          /\ after.pushing = {Head(before.pendingAudioChunks)}
                          /\ after.flushingAudio
                     ELSE /\ after.pushLog = before.pushLog
                          /\ after.pendingAudioChunks = before.pendingAudioChunks
                          /\ ~after.flushingAudio]_vars

\* A push has just failed on a running session and the loop has pushed the
\* next chunk of the queue, with more chunks waiting behind it.
C29_Witness ==
  /\ lastOutcome = PushFailed
  /\ \E s \in Sessions :
       /\ session[s].state = "running"
       /\ ~session[s].isDisposed
       /\ Len(session[s].pushLog) >= 2
       /\ session[s].pushing = {session[s].pushLog[Len(session[s].pushLog)]}
       /\ Len(session[s].pendingAudioChunks) >= 1
       /\ session[s].pendingAudioChunks[1] = session[s].pushLog[Len(session[s].pushLog)] + 1

(* --------------------------- translation properties --------------------- *)

\* The session's snapshot says this segment is to be translated.
TranslationWanted(se, isFinal) ==
  /\ se.settings # << >>
  /\ se.settings[1].translation.enabled
  /\ isFinal \/ se.settings[1].runtime.partialTranslation

\* The step started a translate call for the segment just reported to s.
TranslateCalled(s) ==
  session'[s].translating = session[s].translating \cup {session[s].segments + 1}

\* The step posted the segment untranslated as the session's next revision.
PostedUntranslated(s, segment) ==
  /\ session'[s].revision = session[s].revision + 1
  /\ session'[s].outbox =
       Append(session[s].outbox,
              TranscriptUpdate(session[s].revision + 1, segment, Undefined))

\* C30: translate is called for a reported segment if and only if
\* translation is enabled and the segment is final or partial translation
\* is enabled; when translate fails the segment is posted as the next
\* TranscriptUpdate with its text and no translated text, and the session is
\* not disposed.
C30_TranslateIffWanted ==
  [][\A s \in Sessions :
       /\ \A e \in Engines : \A isFinal \in BOOLEAN :
            EngineSegment(s, e, isFinal)
              => (TranslateCalled(s) <=> TranslationWanted(session[s], isFinal))
       /\ \A segment \in session[s].translating :
            TranslateRejected(s, segment)
              => /\ PostedUntranslated(s, segment)
                 /\ ~session'[s].isDisposed]_vars

\* C30 for a session that holds engines when the segment is reported and,
\* for the failure, a port that takes the message: translate is called if and
\* only if the snapshot wants it, a segment that is not translated is posted
\* at once, and after a failed translate the segment is posted untranslated
\* as the next revision with the session's state and disposal flag as they
\* were.
C30_LiveTranslateIffWanted ==
  [][\A s \in Sessions :
       /\ \A e \in Engines : \A isFinal \in BOOLEAN :
            (EngineSegment(s, e, isFinal) /\ session[s].engines # << >>)
              => /\ TranslateCalled(s) <=> TranslationWanted(session[s], isFinal)
                 /\ (~TranslateCalled(s) /\ session[s].portOpen)
                      => PostedUntranslated(s, session[s].segments + 1)
       /\ \A segment \in session[s].translating :
            (TranslateRejected(s, segment) /\ session[s].portOpen)
              => /\ PostedUntranslated(s, segment)
                 /\ session'[s].isDisposed = session[s].isDisposed
                 /\ session'[s].state = session[s].state
                 /\ session'[s].engines = session[s].engines]_vars

\* A translate call has just failed on a running session and its segment is
\* the last message posted, untranslated, while another partial segment
\* posted before it carries a translation.
C30_Witness ==
  /\ lastOutcome = TranslateFailed
  /\ \E s \in Sessions :
       LET out == session[s].outbox
       IN  /\ session[s].state = "running"
           /\ ~session[s].isDisposed
           /\ session[s].settings[1].runtime.partialTranslation
           /\ Len(out) >= 2
           /\ out[Len(out)][1] = "TRANSCRIPT_UPDATE"
           /\ out[Len(out)][4] = Undefined
           /\ \E i \in 1..(Len(out) - 1) :
                /\ out[i][1] = "TRANSCRIPT_UPDATE"
                /\ out[i][4] = Translated(out[i][3])

(* ----------------------------- shutdown of a pool ------------------------ *)

\* C31: disposeAll leaves the pool with no entry and no armed timer, with
\* dispose() called on every instance constructed so far, and a release that
\* follows it changes neither the pool nor the disposals.
C31_DisposeAllLeavesNothing ==
  [][/\ CallDisposeAll
          => /\ pools'["asr"].entries = << >>
             /\ \A key \in PoolKeys("asr") : pools'["asr"].orphans[key] = 0
             /\ \A e \in DOMAIN disposeCalls' : disposeCalls'[e] >= 1
     /\ \A key \in PoolKeys("asr") :
          (CallRelease(key) /\ lastCall.op = "disposeAll")
            => /\ pools' = pools
               /\ disposeCalls' = disposeCalls]_vars

(* ------------------------ references held by a session ------------------ *)

\* C32: on each pool the acquires a session has made exceed its releases by
\* at most 1, however many Inits it has processed.
C32_OneReferencePerPool ==
  \A s \in Sessions : \A p \in PoolNames :
    session[s].acquired[p] - session[s].released[p] <= 1

(* ------------------------- pushes on a shared engine --------------------- *)

\* The recognition engine a pushAudio of session s in flight was called on.
PushingOn(s) ==
  IF session[s].pushing # {} /\ session[s].engines # << >>
    THEN {session[s].engines[1].asr}
    ELSE {}

\* C33: no recognition engine instance has pushAudio calls of two sessions
\* in flight at the same time.
C33_OnePushPerEngine ==
  \A s1 \in Sessions : \A s2 \in Sessions :
    s1 # s2 => PushingOn(s1) \cap PushingOn(s2) = {}

(* ------------------------------ resuming --------------------------------- *)

\* The session has been running: it posted SESSION_READY.
HasRun(se) == \E i \in DOMAIN se.outbox : se.outbox[i] = <<"SESSION_READY">>

\* C34: PlaybackState{playing} received by a session that was running, was
\* paused, is not disposed and holds its engines brings it back to running.
C34_PlayingResumes ==
  [][\A s \in Sessions :
       (/\ ReceivePlaybackState(s, "playing")
        /\ HasRun(session[s])
        /\ session[s].state = "paused"
        /\ session[s].engines # << >>
        /\ ~session[s].isDisposed)
         => session'[s].state = "running"]_vars

(* --------------------------- the last message ---------------------------- *)

\* C35: SESSION_STOPPED is the last message a session posts: nothing follows
\* it in the session's outbox.
C35_StoppedIsLast ==
  \A s \in Sessions :
    \A i \in DOMAIN session[s].outbox :
      session[s].outbox[i] = <<"SESSION_STOPPED">> => i = Len(session[s].outbox)

(* ---------------------------- liveness clock ----------------------------- *)

\* The step is the receipt of an inbound message by session s.
Inbound(s) ==
  \/ \E version \in Versions : \E isLive \in BOOLEAN : ReceiveInit(s, version, isLive)
  \/ ReceiveAudioChunk(s)
  \/ \E st \in PlaybackStates : ReceivePlaybackState(s, st)
  \/ \E skew \in HeartbeatSkews : ReceiveHeartbeat(s, skew)

\* C36: when a session receives an inbound message, the time since its last
\* heartbeat does not grow and is not beyond the timeout afterwards, so a
\* sweep run at that moment would leave the session alone.
C36_InboundKeepsAlive ==
  [][\A s \in Sessions :
       Inbound(s)
         => /\ session'[s].heartbeatAge <= session[s].heartbeatAge
            /\ ~isHeartbeatExpired(session'[s])]_vars

(* --------------------------- the duplicate guard -------------------------- *)

\* C37: a session that is not disposed and has no handleSessionInit in
\* flight does not have initInProgress set.
C37_GuardReleased ==
  \A s \in Sessions :
    (~session[s].isDisposed /\ session[s].initPc = "none")
      => ~session[s].initInProgress

(* ---------------------------- order of segments -------------------------- *)

\* The segments of the TRANSCRIPT_UPDATE messages of an outbox, in the order
\* of posting; segments are numbered in the order the engine reported them.
RECURSIVE PostedSegments(_)
PostedSegments(outbox) ==
  IF outbox = << >> THEN << >>
  ELSE IF Head(outbox)[1] = "TRANSCRIPT_UPDATE"
    THEN <<Head(outbox)[3]>> \o PostedSegments(Tail(outbox))
    ELSE PostedSegments(Tail(outbox))

\* C38: a session posts its TRANSCRIPT_UPDATE messages in the order in which
\* the engine reported their segments.
C38_PostedInReportedOrder ==
  \A s \in Sessions :
    LET segs == PostedSegments(session[s].outbox)
    IN  \A i \in DOMAIN segs : \A j \in DOMAIN segs : i < j => segs[i] < segs[j]

(* -------------------------- registry and sessions ------------------------- *)

\* C39: the registry holds exactly the sessions that were created and are
\* not disposed, each under its own identity; in particular a session
\* registered under an identity is not removed by what a disposed session of
\* the same identity still does.
C39_RegistryAgreesWithLive ==
  /\ \A id \in DOMAIN registry :
       /\ registry[id] \in Sessions
       /\ session[registry[id]].sessionId = id
       /\ ~session[registry[id]].isDisposed
  /\ \A s \in Sessions :
       ~session[s].isDisposed
         => /\ session[s].sessionId \in DOMAIN registry
            /\ registry[session[s].sessionId] = s

\* A second session is registered under the identity of a disposed one whose
\* handleSessionInit went through its catch block, dispose call included,
\* after the second was created.
C39_Witness ==
  \E s1 \in Sessions : \E s2 \in Sessions :
    /\ s1 < s2
    /\ session[s1].sessionId = session[s2].sessionId
    /\ session[s1].isDisposed
    /\ session[s1].state = "error"
    /\ session[s1].initPc = "none"
    /\ ~session[s2].isDisposed
    /\ session[s2].state = "running"
    /\ registry[session[s2].sessionId] = s2

====
